---- MODULE Spec2Model ----
(***************************************************************************)
(* A model of the Dare Careers ETL pipeline (src/etl): the loaders, the    *)
(* fact and dimension builders of transformers.py, and run_pipeline of     *)
(* main.py.                                                                *)
(*                                                                         *)
(* Text is modelled character by character: a Python str is a sequence of  *)
(* one-character strings, so that lower(), strip(), split(), replace() and *)
(* int() are computed as Python computes them.  A missing cell (pandas     *)
(* NaN, a float) is the value NaN below.  A Python float is modelled by    *)
(* the exact rational [num, den] it stands for; for the sums and the       *)
(* comparison of the code this is exact below 2^46 minutes.                *)
(*                                                                         *)
(* A function that may raise returns a record [ok, val, err].              *)
(*                                                                         *)
(* transformers.py:11 imports PROGRAM_START_DATE and PROGRAM_END_DATE,     *)
(* which config.py does not define, so the modules as they stand do not    *)
(* load.  The model is of the functions' bodies and of run_pipeline once   *)
(* called, that is, with these two names supplied.                         *)
(***************************************************************************)
EXTENDS Integers, Sequences, FiniteSets, TLC

VARIABLES
    ATTENDANCE_THRESHOLD_MINUTES, \* config.py:34, read from the environment
    zoom_files,          \* the CSV files under ZOOM_DIR: <<[path, rows]>>
    labs_sheet,          \* sheet "Labs" of LABS_QUIZZES_FILE
    quizzes_sheet,       \* sheet "Quizzes" of LABS_QUIZZES_FILE
    participation_file,  \* PARTICIPATION_FILE
    status_file,         \* STATUS_FILE
    zoom_raw, labs_raw, quizzes_raw, participation_raw, status_raw,
    fact_attendance, fact_assessment, name_email_map, fact_participation,
    dim_learner, dim_date,
    saved,               \* the output tables written by save_dataframe
    pc,                  \* the statement run_pipeline is about to execute
    executed,            \* the calls that have returned, in order
    exc,                 \* the exception raised inside the try block
    result,              \* what run_pipeline returned
    exit_code            \* the process's exit code

vars == <<ATTENDANCE_THRESHOLD_MINUTES, zoom_files, labs_sheet, quizzes_sheet,
          participation_file, status_file, zoom_raw, labs_raw, quizzes_raw,
          participation_raw, status_raw, fact_attendance, fact_assessment,
          name_email_map, fact_participation, dim_learner, dim_date, saved,
          pc, executed, exc, result, exit_code>>

(***************************************************************************)
(* Bounds of the model.                                                    *)
(***************************************************************************)
MaxAttendanceRows == 2
MaxLearners == 2
MaxWeekColumns == 5
MaxParticipationRows == 2
MaxStatusRows == 2
AltThreshold == 1
MaxHours == 1

(***************************************************************************)
(* Values.                                                                 *)
(***************************************************************************)
NaN == <<"nan">>
Ok(v) == [ok |-> TRUE, val |-> v, err |-> "none"]
Raise(e) == [ok |-> FALSE, val |-> <<>>, err |-> e]

Digits == <<"0", "1", "2", "3", "4", "5", "6", "7", "8", "9">>
DigitSet == {Digits[i] : i \in 1..10}
DigitValue(c) == (CHOOSE i \in 1..10 : Digits[i] = c) - 1
Whitespace == {" "}
UpperToLower == [A |-> "a", B |-> "b", C |-> "c", D |-> "d", E |-> "e",
                 F |-> "f", G |-> "g", H |-> "h", I |-> "i", J |-> "j",
                 K |-> "k", L |-> "l", M |-> "m", N |-> "n", O |-> "o",
                 P |-> "p", Q |-> "q", R |-> "r", S |-> "s", T |-> "t",
                 U |-> "u", V |-> "v", W |-> "w", X |-> "x", Y |-> "y",
                 Z |-> "z"]

(***************************************************************************)
(* Python's str methods.                                                   *)
(***************************************************************************)
LowerChar(c) == IF c \in DOMAIN UpperToLower THEN UpperToLower[c] ELSE c
str_lower(s) == [i \in 1..Len(s) |-> LowerChar(s[i])]

RECURSIVE LStrip(_)
LStrip(s) == IF s # <<>> /\ Head(s) \in Whitespace THEN LStrip(Tail(s)) ELSE s
RECURSIVE RStrip(_)
RStrip(s) ==
    IF s # <<>> /\ s[Len(s)] \in Whitespace
    THEN RStrip(SubSeq(s, 1, Len(s) - 1)) ELSE s
str_strip(s) == RStrip(LStrip(s))

\* s.split(sep) for a one-character sep: always at least one part.
RECURSIVE str_split(_, _)
str_split(s, sep) ==
    IF \E i \in 1..Len(s) : s[i] = sep
    THEN LET i == CHOOSE k \in 1..Len(s) :
                      s[k] = sep /\ \A j \in 1..(k - 1) : s[j] # sep
         IN  <<SubSeq(s, 1, i - 1)>> \o str_split(SubSeq(s, i + 1, Len(s)), sep)
    ELSE <<s>>

StartsWith(s, p) == Len(s) >= Len(p) /\ SubSeq(s, 1, Len(p)) = p

\* s.replace(old, ""): every occurrence of old removed, left to right.
RECURSIVE str_remove(_, _)
str_remove(s, old) ==
    IF s = <<>> THEN s
    ELSE IF StartsWith(s, old)
         THEN str_remove(SubSeq(s, Len(old) + 1, Len(s)), old)
         ELSE <<Head(s)>> \o str_remove(Tail(s), old)

RECURSIVE DigitsValue(_)
DigitsValue(s) ==
    IF s = <<>> THEN 0
    ELSE 10 * DigitsValue(SubSeq(s, 1, Len(s) - 1)) + DigitValue(s[Len(s)])

IsDigits(s) == s # <<>> /\ \A i \in 1..Len(s) : s[i] \in DigitSet

\* int(s): surrounding whitespace and one sign are accepted.  (Underscores
\* between digits and non-ASCII digits, which int() also accepts, do not
\* occur in the texts of the model.)
py_int(s) ==
    LET t == str_strip(s)
        signed == t # <<>> /\ Head(t) \in {"+", "-"}
        d == IF signed THEN Tail(t) ELSE t
    IN  IF ~IsDigits(d) THEN Raise("ValueError")
        ELSE IF signed /\ Head(t) = "-" THEN Ok(0 - DigitsValue(d))
        ELSE Ok(DigitsValue(d))

\* str(n) for n >= 0.
RECURSIVE py_str(_)
py_str(n) ==
    IF n < 10 THEN <<Digits[n + 1]>>
    ELSE py_str(n \div 10) \o <<Digits[(n % 10) + 1]>>

RECURSIVE ZeroPad(_, _)
ZeroPad(s, width) == IF Len(s) >= width THEN s ELSE ZeroPad(<<"0">> \o s, width)

(***************************************************************************)
(* utils.py                                                                *)
(***************************************************************************)
\* hours * 60 + minutes + seconds / 60
parse_duration_to_minutes(duration_str) ==
    IF duration_str = NaN THEN Raise("AttributeError")
    ELSE LET parts == str_split(duration_str, ":")
         IN  IF Len(parts) < 1 \/ ~py_int(parts[1]).ok THEN Raise("ValueError")
             ELSE IF Len(parts) < 2 THEN Raise("IndexError")
             ELSE IF ~py_int(parts[2]).ok THEN Raise("ValueError")
             ELSE IF Len(parts) < 3 THEN Raise("IndexError")
             ELSE IF ~py_int(parts[3]).ok THEN Raise("ValueError")
             ELSE Ok([num |-> (py_int(parts[1]).val * 60 + py_int(parts[2]).val) * 60
                                 + py_int(parts[3]).val,
                      den |-> 60])

MonthChars == <<
    <<"j", "a", "n">>, <<"f", "e", "b">>, <<"m", "a", "r">>, <<"a", "p", "r">>,
    <<"m", "a", "y">>, <<"j", "u", "n">>, <<"j", "u", "l">>, <<"a", "u", "g">>,
    <<"s", "e", "p">>, <<"o", "c", "t">>, <<"n", "o", "v">>, <<"d", "e", "c">> >>
IsLeap(y) == (y % 4 = 0 /\ y % 100 # 0) \/ y % 400 = 0
DaysInMonth(y, m) ==
    IF m = 2 THEN (IF IsLeap(y) THEN 29 ELSE 28)
    ELSE IF m \in {4, 6, 9, 11} THEN 30 ELSE 31

\* pd.to_datetime(s, format="%d-%b-%Y"): a one- or two-digit day, a month
\* abbreviation in any case, a four-digit year, nothing else.
to_datetime(s) ==
    LET parts == str_split(s, "-")
    IN  IF Len(parts) # 3 THEN Raise("ValueError")
        ELSE IF ~(IsDigits(parts[1]) /\ Len(parts[1]) <= 2)
                \/ ~(\E m \in 1..12 : MonthChars[m] = str_lower(parts[2]))
                \/ ~(IsDigits(parts[3]) /\ Len(parts[3]) = 4)
             THEN Raise("ValueError")
        ELSE LET d == DigitsValue(parts[1])
                 m == CHOOSE k \in 1..12 : MonthChars[k] = str_lower(parts[2])
                 y == DigitsValue(parts[3])
             IN  IF d < 1 \/ d > DaysInMonth(y, m) THEN Raise("ValueError")
                 ELSE Ok([year |-> y, month |-> m, day |-> d])

\* date.strftime("%Y%m%d")
strftime(date) ==
    ZeroPad(py_str(date.year), 4) \o ZeroPad(py_str(date.month), 2)
        \o ZeroPad(py_str(date.day), 2)

\* Path(p).name: the last component.
path_name(p) == LET parts == str_split(p, "/") IN parts[Len(parts)]
\* Path(p).parent.name: the component before the last ("" when there is none).
path_parent_name(p) ==
    LET parts == str_split(p, "/")
    IN  IF Len(parts) >= 2 THEN parts[Len(parts) - 1] ELSE <<>>
\* Path(p).stem: the name without its last suffix.
path_stem(p) ==
    LET n == path_name(p)
        dots == {i \in 2..Len(n) : n[i] = "."}
    IN  IF dots = {} \/ n[Len(n)] = "." THEN n
        ELSE SubSeq(n, 1, (CHOOSE i \in dots : \A j \in dots : j <= i) - 1)

extract_date_from_filename(filename) == to_datetime(path_stem(filename))

WeekPrefix == <<"W", "e", "e", "k", " ">>
extract_week_from_path(filepath) ==
    py_int(str_remove(path_parent_name(filepath), WeekPrefix))

normalize_email(email) ==
    IF email = NaN THEN Raise("AttributeError") ELSE Ok(str_strip(str_lower(email)))

normalize_name(name) ==
    IF name = NaN THEN Raise("AttributeError") ELSE Ok(str_strip(name))

(***************************************************************************)
(* pandas helpers.                                                         *)
(***************************************************************************)
\* Series.apply: the error of the first row on which the function raised,
\* given the results row by row.
ApplyError(results) ==
    IF \E i \in 1..Len(results) : ~results[i].ok
    THEN results[CHOOSE i \in 1..Len(results) :
                     ~results[i].ok /\ \A j \in 1..(i - 1) : results[j].ok].err
    ELSE "none"

FirstError(errs) ==
    IF \E i \in 1..Len(errs) : errs[i] # "none"
    THEN errs[CHOOSE i \in 1..Len(errs) :
                  errs[i] # "none" /\ \A j \in 1..(i - 1) : errs[j] = "none"]
    ELSE "none"

RECURSIVE Flatten(_)
Flatten(seqs) == IF seqs = <<>> THEN <<>> ELSE Head(seqs) \o Flatten(Tail(seqs))

(***************************************************************************)
(* transformers.py: transform_zoom_attendance                              *)
(***************************************************************************)
\* (duration_minutes > ATTENDANCE_THRESHOLD_MINUTES).astype(int)
is_attended_ge(duration_minutes) ==
    IF duration_minutes.num >= ATTENDANCE_THRESHOLD_MINUTES * duration_minutes.den
    THEN 1 ELSE 0
is_attended(duration_minutes) ==
    IF duration_minutes.num > ATTENDANCE_THRESHOLD_MINUTES * duration_minutes.den
    THEN 1 ELSE 0

\* email + "_" + attendance_date.dt.strftime("%Y%m%d")
attendance_id(email, date) == email \o <<"_">> \o strftime(date)

\* One row of fact_attendance.  Join Time and Leave Time are copied through
\* unread and are left out.
AttendanceRow(r) ==
    LET email == normalize_email(r.Email).val
        minutes == parse_duration_to_minutes(r.Duration).val
        date == extract_date_from_filename(r.source_file).val
    IN  [attendance_id |-> attendance_id(email, date),
         email |-> email,
         learner_name |-> r.Name,
         attendance_date |-> date,
         week_number |-> extract_week_from_path(r.source_path).val,
         duration_minutes |-> minutes,
         duration_hours |-> [num |-> minutes.num, den |-> minutes.den * 60],
         is_attended |-> is_attended(minutes)]

transform_zoom_attendance(df) ==
    LET err == FirstError(<<
            ApplyError([i \in 1..Len(df) |-> normalize_email(df[i].Email)]),
            ApplyError([i \in 1..Len(df) |-> parse_duration_to_minutes(df[i].Duration)]),
            ApplyError([i \in 1..Len(df) |-> extract_date_from_filename(df[i].source_file)]),
            ApplyError([i \in 1..Len(df) |-> extract_week_from_path(df[i].source_path)]),
            \* .dt on the empty, non-datetime column of an empty frame
            IF df = <<>> THEN "AttributeError" ELSE "none" >>)
    IN  IF err # "none" THEN Raise(err)
        ELSE Ok([i \in 1..Len(df) |-> AttendanceRow(df[i])])

(***************************************************************************)
(* transformers.py: transform_assessments                                  *)
(*                                                                         *)
(* A wide table is [columns, rows]: the labels of the columns other than   *)
(* email, and per learner [email, scores], one score per column.  A score  *)
(* is [isnull, value].                                                     *)
(***************************************************************************)
\* df.melt(id_vars=["email"], var_name="week", value_name="score") with the
\* assessment_type column added: column by column, the rows in order.
MeltedRow(df, k, assessment_type) ==
    LET n == Len(df.rows)
        j == ((k - 1) \div n) + 1
        i == ((k - 1) % n) + 1
    IN  [email |-> df.rows[i].email, week |-> df.columns[j],
         score |-> df.rows[i].scores[j], assessment_type |-> assessment_type]

melt_dropna(df, assessment_type) ==
    SelectSeq([k \in 1..(Len(df.rows) * Len(df.columns)) |->
                   MeltedRow(df, k, assessment_type)],
              LAMBDA r : ~r.score.isnull)
melt(df, assessment_type) ==
    [k \in 1..(Len(df.rows) * Len(df.columns)) |-> MeltedRow(df, k, assessment_type)]

\* Series.str.extract(r"(\d+)"): the first run of digits, NaN when none.
str_extract_digits(s) ==
    IF \A i \in 1..Len(s) : s[i] \notin DigitSet THEN NaN
    ELSE LET a == CHOOSE i \in 1..Len(s) :
                      s[i] \in DigitSet /\ \A j \in 1..(i - 1) : s[j] \notin DigitSet
             b == CHOOSE i \in a..Len(s) :
                      /\ \A j \in a..i : s[j] \in DigitSet
                      /\ (i = Len(s) \/ s[i + 1] \notin DigitSet)
         IN  SubSeq(s, a, b)

\* .astype(int) of the extracted column
week_number_of(label) ==
    IF str_extract_digits(label) = NaN THEN Raise("ValueError")
    ELSE Ok(DigitsValue(str_extract_digits(label)))

LowerTypeChars(assessment_type) ==
    IF assessment_type = "Lab" THEN <<"l", "a", "b">> ELSE <<"q", "u", "i", "z">>

AssessmentRow(r) ==
    LET email == normalize_email(r.email).val
        week == week_number_of(r.week).val
    IN  [assessment_id |-> email \o <<"_">> \o LowerTypeChars(r.assessment_type)
                               \o <<"_">> \o py_str(week),
         email |-> email,
         week_number |-> week,
         assessment_type |-> r.assessment_type,
         score |-> r.score]

transform_assessments(labs_df, quizzes_df) ==
    LET combined == melt(labs_df, "Lab") \o melt(quizzes_df, "Quiz")
        err == FirstError(<<
            ApplyError([k \in 1..Len(combined) |-> normalize_email(combined[k].email)]),
            ApplyError([k \in 1..Len(combined) |-> week_number_of(combined[k].week)]) >>)
    IN  IF err # "none" THEN Raise(err)
        ELSE Ok([k \in 1..Len(combined) |-> AssessmentRow(combined[k])])

(***************************************************************************)
(* transformers.py: create_name_email_mapping, transform_participation     *)
(***************************************************************************)
\* dict(zip(names, emails)): a later row overwrites an earlier one.
create_name_email_mapping(attendance_df) ==
    LET err == ApplyError([i \in 1..Len(attendance_df) |->
                               normalize_name(attendance_df[i].learner_name)])
        name(i) == normalize_name(attendance_df[i].learner_name).val
        names == {name(i) : i \in 1..Len(attendance_df)}
        last(n) == CHOOSE i \in 1..Len(attendance_df) :
                       name(i) = n /\ \A j \in (i + 1)..Len(attendance_df) : name(j) # n
    IN  IF err # "none" THEN Raise(err)
        ELSE Ok([n \in names |-> attendance_df[last(n)].email])

\* name_email_map.get(name), and the test "if email:".
Resolves(map, name) == name \in DOMAIN map /\ map[name] # <<>>

\* [normalize_name(n) for n in row["Participants"].split(",")]
participants(row) ==
    LET parts == str_split(row.Participants, ",")
    IN  [i \in 1..Len(parts) |-> str_strip(parts[i])]

\* The records one row of the participation table appends.
RowRecords(row, map) ==
    LET names == SelectSeq(participants(row), LAMBDA n : Resolves(map, n))
    IN  [i \in 1..Len(names) |->
            [participation_date |-> row.Date, learner_name |-> names[i],
             email |-> map[names[i]], participated |-> 1]]

ParticipationRow(r) ==
    LET date == to_datetime(r.participation_date).val
    IN  [participation_id |-> r.email \o <<"_">> \o strftime(date),
         email |-> r.email,
         learner_name |-> r.learner_name,
         participation_date |-> date,
         participated |-> r.participated]

transform_participation(participation_df, map) ==
    LET nan == \E i \in 1..Len(participation_df) :
                    participation_df[i].Participants = NaN
        records == Flatten([i \in 1..Len(participation_df) |->
                                RowRecords(participation_df[i], map)])
        err == ApplyError([k \in 1..Len(records) |->
                               to_datetime(records[k].participation_date)])
    IN  IF nan THEN Raise("AttributeError")
        \* pd.DataFrame([]) has no column "participation_date"
        ELSE IF records = <<>> THEN Raise("KeyError")
        ELSE IF err # "none" THEN Raise(err)
        ELSE Ok([k \in 1..Len(records) |-> ParticipationRow(records[k])])

(***************************************************************************)
(* transformers.py: create_dim_learner                                     *)
(***************************************************************************)
\* attendance_df.groupby("email")["learner_name"].first(), then .map: the
\* first non-null name among the rows of that email, NaN when there is none.
first_name_of(attendance_df, email) ==
    LET hits == {i \in 1..Len(attendance_df) :
                     /\ attendance_df[i].email = email
                     /\ attendance_df[i].learner_name # NaN}
    IN  IF hits = {} THEN NaN
        ELSE attendance_df[CHOOSE i \in hits : \A j \in hits : i <= j].learner_name

create_dim_learner(status_df, attendance_df) ==
    LET err == ApplyError([i \in 1..Len(status_df) |-> normalize_email(status_df[i].email)])
    IN  IF err # "none" THEN Raise(err)
        ELSE Ok([i \in 1..Len(status_df) |->
                LET email == normalize_email(status_df[i].email).val
                IN  [learner_id |-> i,
                     email |-> email,
                     learner_name |-> first_name_of(attendance_df, email),
                     graduation_status |-> status_df[i].GraduationStatus,
                     certification_status |-> status_df[i].CertificationStatus,
                     is_graduated |->
                         IF status_df[i].GraduationStatus = "Graduate" THEN 1 ELSE 0,
                     is_certified |->
                         IF status_df[i].CertificationStatus = "Certified" THEN 1 ELSE 0]])

(***************************************************************************)
(* loaders.py                                                              *)
(***************************************************************************)
CsvSuffix == <<".", "c", "s", "v">>
EndsWith(s, p) == Len(s) >= Len(p) /\ SubSeq(s, Len(s) - Len(p) + 1, Len(s)) = p

\* The rows of one CSV file, tagged with file.name and str(file).
TaggedRows(file) ==
    [i \in 1..Len(file.rows) |->
        [Name |-> file.rows[i].Name, Email |-> file.rows[i].Email,
         Duration |-> file.rows[i].Duration,
         source_file |-> path_name(file.path), source_path |-> file.path]]

\* pd.concat raises ValueError when rglob("*.csv") found no file.
load_zoom_attendance(files) ==
    LET all_files == SelectSeq(files, LAMBDA f : EndsWith(path_name(f.path), CsvSuffix))
    IN  IF all_files = <<>> THEN Raise("ValueError")
        ELSE Ok(Flatten([i \in 1..Len(all_files) |-> TaggedRows(all_files[i])]))

\* pd.read_excel: a missing workbook or sheet raises.
read_excel(file) ==
    IF file.exists THEN Ok(file.table) ELSE Raise("FileNotFoundError")

(***************************************************************************)
(* The texts the inputs are drawn from.                                    *)
(***************************************************************************)
\* "Zoom/Week 1/05-Aug-2024.csv"
PathWeek1Aug05 == <<"Z", "o", "o", "m", "/", "W", "e", "e", "k", " ", "1",
    "/", "0", "5", "-", "A", "u", "g", "-", "2", "0", "2", "4", ".", "c",
    "s", "v">>
\* "Zoom/Week 1/06-Aug-2024.csv"
PathWeek1Aug06 == <<"Z", "o", "o", "m", "/", "W", "e", "e", "k", " ", "1",
    "/", "0", "6", "-", "A", "u", "g", "-", "2", "0", "2", "4", ".", "c",
    "s", "v">>
\* "Zoom/Week 2/12-Aug-2024.csv"
PathWeek2Aug12 == <<"Z", "o", "o", "m", "/", "W", "e", "e", "k", " ", "2",
    "/", "1", "2", "-", "A", "u", "g", "-", "2", "0", "2", "4", ".", "c",
    "s", "v">>
\* "Zoom/Week 1/2024-08-05.csv"
PathIsoDate == <<"Z", "o", "o", "m", "/", "W", "e", "e", "k", " ", "1", "/",
    "2", "0", "2", "4", "-", "0", "8", "-", "0", "5", ".", "c", "s", "v">>
\* "Zoom/05-Aug-2024.csv"
PathNoWeek == <<"Z", "o", "o", "m", "/", "0", "5", "-", "A", "u", "g", "-",
    "2", "0", "2", "4", ".", "c", "s", "v">>
\* "Zoom/Week 1/notes.txt"
PathNotCsv == <<"Z", "o", "o", "m", "/", "W", "e", "e", "k", " ", "1", "/",
    "n", "o", "t", "e", "s", ".", "t", "x", "t">>
\* "Ama Owusu"
NameAma == <<"A", "m", "a", " ", "O", "w", "u", "s", "u">>
\* " Ama Owusu "
NameAmaPadded == <<" ", "A", "m", "a", " ", "O", "w", "u", "s", "u", " ">>
\* "Kojo Mensah"
NameKojo == <<"K", "o", "j", "o", " ", "M", "e", "n", "s", "a", "h">>
\* "ama@x.org"
EmailAma == <<"a", "m", "a", "@", "x", ".", "o", "r", "g">>
\* " Ama@X.org "
EmailAmaMixed == <<" ", "A", "m", "a", "@", "X", ".", "o", "r", "g", " ">>
\* "kojo@x.org"
EmailKojo == <<"k", "o", "j", "o", "@", "x", ".", "o", "r", "g">>
\* " "
EmailBlank == <<" ">>
\* "30:00"
DurationTwoParts == <<"3", "0", ":", "0", "0">>
\* "0:3x:00"
DurationNotNumeric == <<"0", ":", "3", "x", ":", "0", "0">>
\* "0:30:00"
Duration003000 == <<"0", ":", "3", "0", ":", "0", "0">>
\* "0:30:01"
Duration003001 == <<"0", ":", "3", "0", ":", "0", "1">>
\* "1:05:30"
Duration010530 == <<"1", ":", "0", "5", ":", "3", "0">>
\* "05-Aug-2024"
DateAug05 == <<"0", "5", "-", "A", "u", "g", "-", "2", "0", "2", "4">>
\* "06-Aug-2024"
DateAug06 == <<"0", "6", "-", "A", "u", "g", "-", "2", "0", "2", "4">>
\* "2024-08-05"
DateIso == <<"2", "0", "2", "4", "-", "0", "8", "-", "0", "5">>
\* "Ama Owusu, Kojo Mensah"
PartAmaKojo == <<"A", "m", "a", " ", "O", "w", "u", "s", "u", ",", " ", "K",
    "o", "j", "o", " ", "M", "e", "n", "s", "a", "h">>
\* "Ama Owusu,Ama Owusu"
PartAmaAma == <<"A", "m", "a", " ", "O", "w", "u", "s", "u", ",", "A", "m",
    "a", " ", "O", "w", "u", "s", "u">>
\* " Ama Owusu "
PartAmaPadded == <<" ", "A", "m", "a", " ", "O", "w", "u", "s", "u", " ">>
\* "Kojo Mensah"
PartKojo == <<"K", "o", "j", "o", " ", "M", "e", "n", "s", "a", "h">>
\* "Bonus"
LabelBonus == <<"B", "o", "n", "u", "s">>

(***************************************************************************)
(* The inputs the specifications draw from.                                *)
(***************************************************************************)
DefaultThreshold == 30
ThresholdValues == {DefaultThreshold, AltThreshold}

BoundedSeq(S, n) == UNION {[1..k -> S] : k \in 0..n}

\* "H:MM:SS" written from the three numbers.
FormatDuration(h, m, s) ==
    py_str(h) \o <<":">> \o ZeroPad(py_str(m), 2) \o <<":">> \o ZeroPad(py_str(s), 2)
HoursDomain == (0..MaxHours) \cup {25}
MinutesDomain == {0, 1, 29, 30, 31, 59}
SecondsDomain == {0, 1, 59}
DurationStrings ==
    {FormatDuration(h, m, s) : h \in HoursDomain, m \in MinutesDomain, s \in SecondsDomain}

RawRow(name, email, duration, path) ==
    [Name |-> name, Email |-> email, Duration |-> duration,
     source_file |-> path_name(path), source_path |-> path]

\* Rows that differ in their duration, and rows one of whose fields is malformed.
DurationRows ==
    {RawRow(NameAma, EmailAma, d, PathWeek1Aug05) :
        d \in DurationStrings \cup {DurationTwoParts, DurationNotNumeric, NaN}}
MalformedRows ==
    {RawRow(NameAma, EmailAma, Duration010530, PathIsoDate),
     RawRow(NameAma, EmailAma, Duration010530, PathNoWeek),
     RawRow(NameAma, NaN, Duration010530, PathWeek1Aug05)}
\* Rows that differ in who attended which session.
IdentityRows ==
    {RawRow(n, e, Duration010530, p) :
        n \in {NameAmaPadded, NameKojo},
        e \in {EmailAma, EmailAmaMixed, EmailKojo},
        p \in {PathWeek1Aug05, PathWeek1Aug06, PathWeek2Aug12}}
AttendanceTables ==
    {<<r>> : r \in DurationRows \cup MalformedRows}
        \cup BoundedSeq(IdentityRows, MaxAttendanceRows)

\* Wide assessment tables: n learners, w week columns, the cell numbered
\* missing (0: none) without a score.
LearnerEmail(i) == <<" ", "L">> \o py_str(i) \o <<"@", "X">>
WeekLabel(j) == WeekPrefix \o py_str(j)
WideTable(n, w, missing, bad_label, nan_email) ==
    [columns |-> [j \in 1..w |-> IF bad_label /\ j = w THEN LabelBonus ELSE WeekLabel(j)],
     rows |-> [i \in 1..n |->
        [email |-> IF nan_email /\ i = 1 THEN NaN ELSE LearnerEmail(i),
         scores |-> [j \in 1..w |->
            IF missing = (j - 1) * n + i
            THEN [isnull |-> TRUE, value |-> 0]
            ELSE [isnull |-> FALSE, value |-> 10 * i + j]]]]]
WideTables ==
    {WideTable(c[1], c[2], c[3], FALSE, FALSE) :
        c \in {d \in (0..MaxLearners) \X (0..MaxWeekColumns) \X (0..(MaxLearners * MaxWeekColumns)) :
                   d[3] <= d[1] * d[2]}}
    \cup {WideTable(n, w, 0, TRUE, FALSE) : n \in 0..MaxLearners, w \in 1..MaxWeekColumns}
    \cup {WideTable(n, w, 0, FALSE, TRUE) : n \in 1..MaxLearners, w \in 0..MaxWeekColumns}
\* The quizzes tables: complete, or with the last cell missing.
QuizTables ==
    {WideTable(n, w, m * n * w, FALSE, FALSE) :
        n \in 0..MaxLearners, w \in 0..MaxWeekColumns, m \in 0..1}
    \cup {WideTable(1, 1, 0, TRUE, FALSE)}

ParticipationRows ==
    {[Date |-> d, Participants |-> p] :
        d \in {DateAug05, DateAug06, DateIso},
        p \in {PartAmaKojo, PartAmaAma, PartAmaPadded, PartKojo, NaN}}
ParticipationTables == BoundedSeq(ParticipationRows, MaxParticipationRows)
NameEmailMaps ==
    {<<>>,
     [n \in {NameAma} |-> EmailAma],
     [n \in {NameKojo} |-> EmailKojo],
     [n \in {NameAma} |-> <<>>],
     [n \in {NameAma, NameKojo} |-> IF n = NameAma THEN EmailAma ELSE EmailKojo],
     [n \in {NameAma, NameKojo} |-> EmailAma]}

StatusRows ==
    {[email |-> e, GraduationStatus |-> g, CertificationStatus |-> c] :
        e \in {EmailAma, EmailAmaMixed, EmailKojo, NaN},
        g \in {"Graduate", "graduate", "Dropped"},
        c \in {"Certified", "Not Certified"}}
StatusTables == BoundedSeq(StatusRows, MaxStatusRows)

\* fact_attendance tables for create_dim_learner: what transform_zoom_attendance
\* returns on one and on two rows.
FactAttendanceTables ==
    {<<>>,
     <<AttendanceRow(RawRow(NameAma, EmailAmaMixed, Duration010530, PathWeek1Aug05))>>,
     <<AttendanceRow(RawRow(NaN, EmailAma, Duration010530, PathWeek1Aug05)),
       AttendanceRow(RawRow(NameAmaPadded, EmailAma, Duration010530, PathWeek1Aug06))>>}

\* The contents of the data directory for a run of the pipeline.
CsvRow(name, email, duration) == [Name |-> name, Email |-> email, Duration |-> duration]
ZoomDirs ==
    {<<>>,
     <<[path |-> PathNotCsv, rows |-> <<CsvRow(NameAma, EmailAma, Duration003001)>>]>>,
     <<[path |-> PathWeek1Aug05,
        rows |-> <<CsvRow(NameAma, EmailAmaMixed, Duration003001),
                   CsvRow(NameKojo, EmailKojo, Duration003000)>>]>>,
     <<[path |-> PathWeek1Aug05,
        rows |-> <<CsvRow(NameAmaPadded, EmailAma, Duration003000),
                   CsvRow(NameAma, EmailAma, Duration010530)>>],
       [path |-> PathNotCsv, rows |-> <<>>],
       [path |-> PathWeek2Aug12,
        rows |-> <<CsvRow(NameKojo, EmailKojo, Duration010530)>>]>>,
     <<[path |-> PathIsoDate, rows |-> <<CsvRow(NameAma, EmailAma, Duration003001)>>]>>,
     <<[path |-> PathNoWeek, rows |-> <<CsvRow(NameAma, EmailAma, Duration003001)>>]>>,
     <<[path |-> PathWeek1Aug05,
        rows |-> <<CsvRow(NameAma, EmailAma, DurationTwoParts)>>]>>,
     <<[path |-> PathWeek1Aug05,
        rows |-> <<CsvRow(NaN, EmailAma, Duration003001)>>]>>,
     <<[path |-> PathWeek1Aug05,
        rows |-> <<CsvRow(NameAma, EmailBlank, Duration003001)>>]>>}
Workbook(t) == [exists |-> TRUE, table |-> t]
MissingFile == [exists |-> FALSE, table |-> <<>>]
LabsSheets ==
    {MissingFile, Workbook(WideTable(2, 2, 3, FALSE, FALSE)),
     Workbook(WideTable(1, 2, 0, TRUE, FALSE))}
QuizzesSheets == {MissingFile, Workbook(WideTable(2, 1, 0, FALSE, FALSE))}
ParticipationFiles ==
    {MissingFile,
     Workbook(<<[Date |-> DateAug05, Participants |-> PartAmaKojo],
                [Date |-> DateAug06, Participants |-> PartAmaAma]>>),
     Workbook(<<[Date |-> DateIso, Participants |-> PartKojo]>>),
     Workbook(<<[Date |-> DateAug05, Participants |-> NaN]>>)}
StatusFiles ==
    {MissingFile,
     Workbook(<<[email |-> EmailAmaMixed, GraduationStatus |-> "Graduate",
                 CertificationStatus |-> "Certified"],
                [email |-> EmailKojo, GraduationStatus |-> "Dropped",
                 CertificationStatus |-> "Not Certified"]>>),
     Workbook(<<[email |-> NaN, GraduationStatus |-> "Graduate",
                 CertificationStatus |-> "Certified"]>>)}

(***************************************************************************)
(* main.py: run_pipeline.  The model starts at the call of run_pipeline,   *)
(* with the logging set up, and ends when the process has exited.          *)
(***************************************************************************)
\* The calls of the try block, in the order of the source.
PipelineOrderMapLate ==
    <<"load_zoom_attendance", "load_labs", "load_quizzes", "load_participation",
      "load_status", "transform_zoom_attendance", "transform_assessments",
      "transform_participation", "create_name_email_mapping",
      "create_dim_learner", "create_dim_date", "create_dim_week",
      "save dim_learner", "save dim_date", "save dim_week",
      "save fact_attendance", "save fact_assessment", "save fact_participation">>
PipelineOrder ==
    <<"load_zoom_attendance", "load_labs", "load_quizzes", "load_participation",
      "load_status", "transform_zoom_attendance", "transform_assessments",
      "create_name_email_mapping", "transform_participation",
      "create_dim_learner", "create_dim_date", "create_dim_week",
      "save dim_learner", "save dim_date", "save dim_week",
      "save fact_attendance", "save fact_assessment", "save fact_participation">>

After(step) ==
    LET i == CHOOSE k \in 1..Len(PipelineOrder) : PipelineOrder[k] = step
    IN  IF i < Len(PipelineOrder) THEN PipelineOrder[i + 1] ELSE "return True"

\* The number of parameters of create_dim_date, and the number of arguments
\* run_pipeline passes to it.
create_dim_date_parameters == 0
create_dim_date_arguments == 2

\* except Exception: ... return False
except_return_true == "True"
except_return == "False"

\* sys.exit(0 if success else 1)
exit_status(success) == IF success = "True" THEN 0 ELSE 1

inputs == <<ATTENDANCE_THRESHOLD_MINUTES, zoom_files, labs_sheet, quizzes_sheet,
            participation_file, status_file>>
raws == <<zoom_raw, labs_raw, quizzes_raw, participation_raw, status_raw>>
facts == <<fact_attendance, fact_assessment, name_email_map, fact_participation>>
dims == <<dim_learner, dim_date>>
outcome == <<saved, result, exit_code>>

\* The call returned: the next statement of the try block is next.
Returned(step) ==
    /\ executed' = Append(executed, step)
    /\ pc' = After(step)
    /\ exc' = exc

\* The call raised: control passes to the except clause.
Raised(step, err) ==
    /\ executed' = executed
    /\ pc' = "except"
    /\ exc' = [step |-> step, err |-> err]

LoadZoomAttendance ==
    /\ pc = "load_zoom_attendance"
    /\ LET r == load_zoom_attendance(zoom_files)
       IN  IF r.ok
           THEN zoom_raw' = r.val /\ Returned("load_zoom_attendance")
           ELSE zoom_raw' = zoom_raw /\ Raised("load_zoom_attendance", r.err)
    /\ UNCHANGED <<inputs, labs_raw, quizzes_raw, participation_raw, status_raw,
                   facts, dims, outcome>>

LoadLabs ==
    /\ pc = "load_labs"
    /\ LET r == read_excel(labs_sheet)
       IN  IF r.ok
           THEN labs_raw' = r.val /\ Returned("load_labs")
           ELSE labs_raw' = labs_raw /\ Raised("load_labs", r.err)
    /\ UNCHANGED <<inputs, zoom_raw, quizzes_raw, participation_raw, status_raw,
                   facts, dims, outcome>>

LoadQuizzes ==
    /\ pc = "load_quizzes"
    /\ LET r == read_excel(quizzes_sheet)
       IN  IF r.ok
           THEN quizzes_raw' = r.val /\ Returned("load_quizzes")
           ELSE quizzes_raw' = quizzes_raw /\ Raised("load_quizzes", r.err)
    /\ UNCHANGED <<inputs, zoom_raw, labs_raw, participation_raw, status_raw,
                   facts, dims, outcome>>

LoadParticipation ==
    /\ pc = "load_participation"
    /\ LET r == read_excel(participation_file)
       IN  IF r.ok
           THEN participation_raw' = r.val /\ Returned("load_participation")
           ELSE participation_raw' = participation_raw
                /\ Raised("load_participation", r.err)
    /\ UNCHANGED <<inputs, zoom_raw, labs_raw, quizzes_raw, status_raw,
                   facts, dims, outcome>>

LoadStatus ==
    /\ pc = "load_status"
    /\ LET r == read_excel(status_file)
       IN  IF r.ok
           THEN status_raw' = r.val /\ Returned("load_status")
           ELSE status_raw' = status_raw /\ Raised("load_status", r.err)
    /\ UNCHANGED <<inputs, zoom_raw, labs_raw, quizzes_raw, participation_raw,
                   facts, dims, outcome>>

TransformZoomAttendance ==
    /\ pc = "transform_zoom_attendance"
    /\ LET r == transform_zoom_attendance(zoom_raw)
       IN  IF r.ok
           THEN fact_attendance' = r.val /\ Returned("transform_zoom_attendance")
           ELSE fact_attendance' = fact_attendance
                /\ Raised("transform_zoom_attendance", r.err)
    /\ UNCHANGED <<inputs, raws, fact_assessment, name_email_map,
                   fact_participation, dims, outcome>>

TransformAssessments ==
    /\ pc = "transform_assessments"
    /\ LET r == transform_assessments(labs_raw, quizzes_raw)
       IN  IF r.ok
           THEN fact_assessment' = r.val /\ Returned("transform_assessments")
           ELSE fact_assessment' = fact_assessment
                /\ Raised("transform_assessments", r.err)
    /\ UNCHANGED <<inputs, raws, fact_attendance, name_email_map,
                   fact_participation, dims, outcome>>

CreateNameEmailMapping ==
    /\ pc = "create_name_email_mapping"
    /\ LET r == create_name_email_mapping(fact_attendance)
       IN  IF r.ok
           THEN name_email_map' = r.val /\ Returned("create_name_email_mapping")
           ELSE name_email_map' = name_email_map
                /\ Raised("create_name_email_mapping", r.err)
    /\ UNCHANGED <<inputs, raws, fact_attendance, fact_assessment,
                   fact_participation, dims, outcome>>

TransformParticipation ==
    /\ pc = "transform_participation"
    /\ LET r == transform_participation(participation_raw, name_email_map)
       IN  IF r.ok
           THEN fact_participation' = r.val /\ Returned("transform_participation")
           ELSE fact_participation' = fact_participation
                /\ Raised("transform_participation", r.err)
    /\ UNCHANGED <<inputs, raws, fact_attendance, fact_assessment,
                   name_email_map, dims, outcome>>

CreateDimLearner ==
    /\ pc = "create_dim_learner"
    /\ LET r == create_dim_learner(status_raw, fact_attendance)
       IN  IF r.ok
           THEN dim_learner' = r.val /\ Returned("create_dim_learner")
           ELSE dim_learner' = dim_learner /\ Raised("create_dim_learner", r.err)
    /\ UNCHANGED <<inputs, raws, facts, dim_date, outcome>>

\* create_dim_date(fact_attendance, fact_participation): the function takes
\* no parameter, so the call raises TypeError before its body is entered.
CreateDimDate ==
    /\ pc = "create_dim_date"
    /\ create_dim_date_arguments # create_dim_date_parameters
    /\ Raised("create_dim_date", "TypeError")
    /\ UNCHANGED <<inputs, raws, facts, dims, outcome>>

\* except Exception as e: logger.error(...); return False
ExceptHandler ==
    /\ pc = "except"
    /\ result' = except_return
    /\ pc' = "exit"
    /\ UNCHANGED <<inputs, raws, facts, dims, saved, exit_code, executed, exc>>

\* success = run_pipeline(); sys.exit(0 if success else 1)
Exit ==
    /\ pc = "exit"
    /\ exit_code' = exit_status(result)
    /\ pc' = "exited"
    /\ UNCHANGED <<inputs, raws, facts, dims, saved, result, executed, exc>>

NoException == [step |-> "none", err |-> "none"]

\* No local of run_pipeline is bound, nothing is written, no call has returned.
Fresh ==
    /\ zoom_raw = <<>> /\ labs_raw = <<>> /\ quizzes_raw = <<>>
    /\ participation_raw = <<>> /\ status_raw = <<>>
    /\ fact_attendance = <<>> /\ fact_assessment = <<>> /\ name_email_map = <<>>
    /\ fact_participation = <<>> /\ dim_learner = <<>> /\ dim_date = <<>>
    /\ saved = {} /\ executed = <<>> /\ exc = NoException
    /\ result = "none" /\ exit_code = -1

Init ==
    /\ ATTENDANCE_THRESHOLD_MINUTES = DefaultThreshold
    /\ zoom_files \in ZoomDirs
    /\ labs_sheet \in LabsSheets
    /\ quizzes_sheet \in QuizzesSheets
    /\ participation_file \in ParticipationFiles
    /\ status_file \in StatusFiles
    /\ Fresh
    /\ pc = "load_zoom_attendance"

Next ==
    \/ LoadZoomAttendance \/ LoadLabs \/ LoadQuizzes \/ LoadParticipation
    \/ LoadStatus \/ TransformZoomAttendance \/ TransformAssessments
    \/ CreateNameEmailMapping \/ TransformParticipation \/ CreateDimLearner
    \/ CreateDimDate \/ ExceptHandler \/ Exit

Spec == Init /\ [][Next]_vars

(***************************************************************************)
(* The builders on their own: each specification below draws the           *)
(* arguments of one function of transformers.py and calls it.              *)
(***************************************************************************)
NoFiles ==
    /\ zoom_files = <<>>
    /\ labs_sheet = MissingFile /\ quizzes_sheet = MissingFile
    /\ participation_file = MissingFile /\ status_file = MissingFile

NothingRun ==
    /\ dim_date = <<>> /\ saved = {} /\ executed = <<>> /\ exc = NoException
    /\ result = "none" /\ exit_code = -1

InitAttendance ==
    /\ ATTENDANCE_THRESHOLD_MINUTES \in ThresholdValues
    /\ NoFiles
    /\ zoom_raw \in AttendanceTables
    /\ labs_raw = <<>> /\ quizzes_raw = <<>>
    /\ participation_raw = <<>> /\ status_raw = <<>>
    /\ fact_attendance = <<>> /\ fact_assessment = <<>> /\ name_email_map = <<>>
    /\ fact_participation = <<>> /\ dim_learner = <<>>
    /\ NothingRun
    /\ pc = "transform_zoom_attendance"

SpecAttendance == InitAttendance /\ [][TransformZoomAttendance]_vars

InitAssessment ==
    /\ ATTENDANCE_THRESHOLD_MINUTES = DefaultThreshold
    /\ NoFiles
    /\ labs_raw \in WideTables
    /\ quizzes_raw \in QuizTables
    /\ zoom_raw = <<>> /\ participation_raw = <<>> /\ status_raw = <<>>
    /\ fact_attendance = <<>> /\ fact_assessment = <<>> /\ name_email_map = <<>>
    /\ fact_participation = <<>> /\ dim_learner = <<>>
    /\ NothingRun
    /\ pc = "transform_assessments"

SpecAssessment == InitAssessment /\ [][TransformAssessments]_vars

InitParticipation ==
    /\ ATTENDANCE_THRESHOLD_MINUTES = DefaultThreshold
    /\ NoFiles
    /\ participation_raw \in ParticipationTables
    /\ name_email_map \in NameEmailMaps
    /\ zoom_raw = <<>> /\ labs_raw = <<>> /\ quizzes_raw = <<>> /\ status_raw = <<>>
    /\ fact_attendance = <<>> /\ fact_assessment = <<>>
    /\ fact_participation = <<>> /\ dim_learner = <<>>
    /\ NothingRun
    /\ pc = "transform_participation"

SpecParticipation == InitParticipation /\ [][TransformParticipation]_vars

InitLearner ==
    /\ ATTENDANCE_THRESHOLD_MINUTES = DefaultThreshold
    /\ NoFiles
    /\ status_raw \in StatusTables
    /\ fact_attendance \in FactAttendanceTables
    /\ zoom_raw = <<>> /\ labs_raw = <<>> /\ quizzes_raw = <<>>
    /\ participation_raw = <<>>
    /\ fact_assessment = <<>> /\ name_email_map = <<>>
    /\ fact_participation = <<>> /\ dim_learner = <<>>
    /\ NothingRun
    /\ pc = "create_dim_learner"

SpecLearner == InitLearner /\ [][CreateDimLearner]_vars

(***************************************************************************)
(* The claims.                                                             *)
(***************************************************************************)
Has(step) == \E k \in 1..Len(executed) : executed[k] = step
Position(step) == CHOOSE k \in 1..Len(executed) : executed[k] = step

\* C1: for every raw attendance row whose Duration is a well-formed H:MM:SS,
\* is_attended is 1 exactly when H*60 + MM + SS/60 is strictly greater than
\* ATTENDANCE_THRESHOLD_MINUTES; at the default threshold 30, "0:30:00" is
\* not attended and "0:30:01" is attended.
C1_AttendedIffAboveThreshold ==
    Has("transform_zoom_attendance") =>
        \A i \in 1..Len(zoom_raw) :
            /\ \A h \in HoursDomain, m \in MinutesDomain, s \in SecondsDomain :
                   zoom_raw[i].Duration = FormatDuration(h, m, s) =>
                       (fact_attendance[i].is_attended = 1
                            <=> 60 * (h * 60 + m) + s > 60 * ATTENDANCE_THRESHOLD_MINUTES)
            /\ fact_attendance[i].is_attended \in {0, 1}
            /\ (ATTENDANCE_THRESHOLD_MINUTES = 30 /\ zoom_raw[i].Duration = Duration003000)
                   => fact_attendance[i].is_attended = 0
            /\ (ATTENDANCE_THRESHOLD_MINUTES = 30 /\ zoom_raw[i].Duration = Duration003001)
                   => fact_attendance[i].is_attended = 1

\* A row of exactly 30 minutes has been transformed at the default threshold.
C1_Witness ==
    /\ Has("transform_zoom_attendance")
    /\ ATTENDANCE_THRESHOLD_MINUTES = 30
    /\ \E i \in 1..Len(zoom_raw) :
           zoom_raw[i].Duration = Duration003000 /\ fact_attendance[i].is_attended = 0

\* Every input of the pipeline is well-formed and every read succeeds.
InputsWellFormed ==
    /\ \E i \in 1..Len(zoom_files) : EndsWith(path_name(zoom_files[i].path), CsvSuffix)
    /\ \A i \in 1..Len(zoom_files) :
           EndsWith(path_name(zoom_files[i].path), CsvSuffix) =>
               /\ zoom_files[i].path \in {PathWeek1Aug05, PathWeek1Aug06, PathWeek2Aug12}
               /\ zoom_files[i].rows # <<>>
               /\ \A k \in 1..Len(zoom_files[i].rows) :
                      /\ zoom_files[i].rows[k].Name # NaN
                      /\ zoom_files[i].rows[k].Email # NaN
                      /\ zoom_files[i].rows[k].Duration
                             \in {Duration003000, Duration003001, Duration010530}
    /\ labs_sheet.exists /\ quizzes_sheet.exists
    /\ participation_file.exists /\ status_file.exists
    /\ \A t \in {labs_sheet.table, quizzes_sheet.table} :
           /\ \A j \in 1..Len(t.columns) : t.columns[j] = WeekLabel(j)
           /\ \A i \in 1..Len(t.rows) : t.rows[i].email # NaN
    /\ \A i \in 1..Len(participation_file.table) :
           /\ participation_file.table[i].Date \in {DateAug05, DateAug06}
           /\ participation_file.table[i].Participants # NaN
    /\ \A i \in 1..Len(status_file.table) : status_file.table[i].email # NaN

SixTables ==
    {"dim_learner", "dim_date", "dim_week", "fact_attendance", "fact_assessment",
     "fact_participation"}

\* C2: a run on well-formed inputs whose reads and writes all succeed goes
\* through the four stages in order, persists the six tables and ends with
\* True and exit code 0.
C2_WellFormedRunSucceeds ==
    (pc = "exited" /\ InputsWellFormed) =>
        /\ result = "True"
        /\ exit_code = 0
        /\ saved = SixTables
        /\ Has("create_dim_date") /\ Has("create_dim_week")

\* The names of a participation table's rows, trimmed, one per occurrence.
NameOccurrences(df) ==
    Flatten([i \in 1..Len(df) |-> participants(df[i])])

\* C3: transform_participation completes without error on every table and
\* map, with exactly one row per name occurrence whose trimmed form is a key
\* of the map, also when no name resolves.
C3_UnresolvedNamesNeverAbort ==
    (/\ pc # "transform_participation"
     /\ participation_raw # <<>>
     /\ \A i \in 1..Len(participation_raw) :
            /\ participation_raw[i].Participants # NaN
            /\ participation_raw[i].Date \in {DateAug05, DateAug06})
    => /\ exc = NoException
       /\ Len(fact_participation)
              = Cardinality({k \in 1..Len(NameOccurrences(participation_raw)) :
                                 NameOccurrences(participation_raw)[k]
                                     \in DOMAIN name_email_map})

\* C4: fact_attendance has one row per raw attendance row and no two rows
\* share an attendance_id.
C4_AttendanceIdUnique ==
    Has("transform_zoom_attendance") =>
        /\ Len(fact_attendance) = Len(zoom_raw)
        /\ \A i, j \in 1..Len(fact_attendance) :
               i # j => fact_attendance[i].attendance_id # fact_attendance[j].attendance_id

\* The day's number in the proleptic Gregorian calendar.
RECURSIVE DaysBeforeMonth(_, _)
DaysBeforeMonth(year, month) ==
    IF month = 1 THEN 0
    ELSE DaysInMonth(year, month - 1) + DaysBeforeMonth(year, month - 1)
Ordinal(date) ==
    LET y == date.year - 1
    IN  365 * y + (y \div 4) - (y \div 100) + (y \div 400)
            + DaysBeforeMonth(date.year, date.month) + date.day

DimDates == {Ordinal(dim_date[k].date) : k \in 1..Len(dim_date)}

\* C5: after a run every attendance_date and participation_date has a row
\* in dim_date, and dim_date has a row for every day between its first and
\* its last.
C5_DimDateCoversFacts ==
    (pc = "exited" /\ InputsWellFormed) =>
        /\ \A k \in 1..Len(fact_attendance) :
               Ordinal(fact_attendance[k].attendance_date) \in DimDates
        /\ \A k \in 1..Len(fact_participation) :
               Ordinal(fact_participation[k].participation_date) \in DimDates
        /\ \A a, b \in DimDates : \A n \in a..b : n \in DimDates

\* The calls of the try block as main.py lists them.
SourceOrder ==
    <<"load_zoom_attendance", "load_labs", "load_quizzes", "load_participation",
      "load_status", "transform_zoom_attendance", "transform_assessments",
      "create_name_email_mapping", "transform_participation",
      "create_dim_learner", "create_dim_date">>
SourceIndex(step) == CHOOSE k \in 1..Len(SourceOrder) : SourceOrder[k] = step

\* C6: once a step has raised, no later step runs, the tables already saved
\* stay written, run_pipeline returns False and the process exits with 1.
C6_FailureStopsTheRun ==
    /\ [](exc.step # "none" =>
            /\ pc \in {"except", "exit", "exited"}
            /\ executed = SubSeq(SourceOrder, 1, SourceIndex(exc.step) - 1)
            /\ pc \in {"exit", "exited"} => result = "False"
            /\ pc = "exited" => exit_code = 1)
    /\ [][/\ saved \subseteq saved'
          /\ exc.step # "none" => /\ executed' = executed
                                  /\ <<raws, facts, dims>>' = <<raws, facts, dims>>]_vars

\* A malformed file name made transform_zoom_attendance raise, and the
\* process has exited.
C6_Witness ==
    /\ pc = "exited"
    /\ exc.step = "transform_zoom_attendance"
    /\ Has("load_status") /\ ~Has("transform_assessments")
    /\ result = "False" /\ exit_code = 1

\* C7: the name-to-email lookup is built once, after fact_attendance and
\* before transform_participation starts, and is not modified afterwards.
C7_MapBuiltOnceThenReadOnly ==
    /\ [](/\ Cardinality({k \in 1..Len(executed) :
                               executed[k] = "create_name_email_mapping"}) <= 1
          /\ Has("create_name_email_mapping") =>
                 /\ Has("transform_zoom_attendance")
                 /\ Position("transform_zoom_attendance")
                        < Position("create_name_email_mapping")
          /\ (pc = "transform_participation" \/ Has("transform_participation")
                  \/ exc.step = "transform_participation")
                 => Has("create_name_email_mapping")
          /\ ~Has("create_name_email_mapping") => name_email_map = <<>>)
    /\ [][/\ name_email_map' # name_email_map => pc = "create_name_email_mapping"
          /\ Has("create_name_email_mapping") => name_email_map' = name_email_map]_vars

\* transform_participation has read a lookup of two names and returned.
C7_Witness ==
    /\ Has("transform_participation")
    /\ Cardinality(DOMAIN name_email_map) = 2
    /\ fact_participation # <<>>
    /\ pc = "exited"

NormalizedLearnerEmail(i) == <<"l">> \o py_str(i) \o <<"@", "x">>

\* The rows of type t in positions lo+1..lo+n*w are the n*w cells of df,
\* each with its learner's email, its week and its score, null or not.
CellsPresent(df, t, lo) ==
    LET n == Len(df.rows)
        w == Len(df.columns)
    IN  /\ \A k \in (lo + 1)..(lo + n * w) : fact_assessment[k].assessment_type = t
        /\ \A i \in 1..n, j \in 1..w :
               Cardinality({k \in (lo + 1)..(lo + n * w) :
                   /\ fact_assessment[k].email = NormalizedLearnerEmail(i)
                   /\ fact_assessment[k].week_number = j
                   /\ fact_assessment[k].score = df.rows[i].scores[j]}) = 1

\* C8: transform_assessments returns NL*WL rows tagged Lab followed by NQ*WQ
\* rows tagged Quiz, a cell without a score included.
C8_AssessmentRowCount ==
    Has("transform_assessments") =>
        LET nl == Len(labs_raw.rows) * Len(labs_raw.columns)
            nq == Len(quizzes_raw.rows) * Len(quizzes_raw.columns)
        IN  /\ Len(fact_assessment) = nl + nq
            /\ CellsPresent(labs_raw, "Lab", 0)
            /\ CellsPresent(quizzes_raw, "Quiz", nl)
            /\ (Len(labs_raw.columns) = 5 /\ Len(quizzes_raw.columns) = 5
                    /\ Len(labs_raw.rows) = Len(quizzes_raw.rows))
                   => /\ Len(fact_assessment) = 10 * Len(labs_raw.rows)
                      /\ nl = nq

\* Two learners, five week columns in each table, one lab score missing.
C8_Witness ==
    /\ Has("transform_assessments")
    /\ Len(labs_raw.rows) = 2 /\ Len(labs_raw.columns) = 5
    /\ Len(quizzes_raw.rows) = 2 /\ Len(quizzes_raw.columns) = 5
    /\ \E i \in 1..2, j \in 1..5 : labs_raw.rows[i].scores[j].isnull
    /\ Len(fact_assessment) = 20
    /\ \E k \in 1..10 : fact_assessment[k].score.isnull

\* C9: no two rows of fact_participation share a participation_id.
C9_ParticipationIdUnique ==
    Has("transform_participation") =>
        \A i, j \in 1..Len(fact_participation) :
            i # j => fact_participation[i].participation_id
                         # fact_participation[j].participation_id

\* C10: dim_learner has one row per distinct normalized email of the status
\* roster, with learner_id 1..n.
C10_OneRowPerEmail ==
    Has("create_dim_learner") =>
        /\ Len(dim_learner)
               = Cardinality({str_strip(str_lower(status_raw[i].email)) :
                                  i \in 1..Len(status_raw)})
        /\ \A i \in 1..Len(dim_learner) : dim_learner[i].learner_id = i

====
